---- MODULE Spec2Model ----
(***************************************************************************)
(* A model of the wagtail-mcp tool handlers: the four read-only operations *)
(* (get_page_details, search_documents, get_document_details,              *)
(* search_pages), the URL builder of utils/config.ts and the provider      *)
(* responses they classify.                                                *)
(*                                                                         *)
(* Strings are sequences of atoms.  An atom is either one character that   *)
(* the code or the URL encoding treats specially ("/", " ", "+", "&", "=", *)
(* ",", "?") or a chunk of unreserved characters ("api", "pages", "http:").*)
(* JavaScript values are tagged records, so that typeof and the            *)
(* undefined / null / 0 / "" distinctions of the code stay visible.        *)
(***************************************************************************)
EXTENDS Integers, Sequences, FiniteSets, TLC

VARIABLES
    env,        \* process.env: WAGTAIL_BASE_URL, WAGTAIL_API_PATH, WAGTAIL_API_KEY
    pc,         \* where the handler is: "idle", "awaiting" (at await axios.get), "done"
    op,         \* the tool invoked, "none" when idle
    rawArgs,    \* the arguments as the caller sent them
    args,       \* the validated arguments execute works on (effectiveArgs)
    request,    \* the outbound request: url, params, headers
    calls,      \* the number of axios.get calls of the invocation
    response,   \* what the call came back with
    result,     \* the payload execute returned
    error,      \* the error execute (or the framework's validation) threw
    built,      \* the last direct call of getWagtailApiUrl and what it returned
    signal,     \* the cancellation signal the framework holds for the invocation (extra.signal)
    inv,        \* the invocations in flight side by side, one record per slot
    proc        \* the server process: where main is, its transport, handlers and exit

vars == <<env, pc, op, rawArgs, args, request, calls, response, result, error, built,
          signal, inv, proc>>

(* ---------------------------------------------------------------------- *)
(* JavaScript values                                                      *)
(* ---------------------------------------------------------------------- *)
Undefined == [t |-> "undefined"]
Null == [t |-> "null"]
Num(n) == [t |-> "number", v |-> n]
Str(s) == [t |-> "string", v |-> s]

\* typeof x
TypeOf(x) == x.t

\* x == null  (true of null and undefined)
IsNullish(x) == x.t \in {"undefined", "null"}

\* !x for the values the handlers test: undefined, null, "", 0 are falsy
Falsy(x) ==
    \/ x.t \in {"undefined", "null"}
    \/ (x.t = "string" /\ x.v = <<>>)
    \/ (x.t = "number" /\ x.v = 0)

\* String(x) of a number or a string
ToStr(x) == IF x.t = "number" THEN <<ToString(x.v)>> ELSE x.v

(* ---------------------------------------------------------------------- *)
(* String helpers                                                         *)
(* ---------------------------------------------------------------------- *)
StartsWithSlash(s) == Len(s) > 0 /\ s[1] = "/"

EndsWithSlash(s) == Len(s) > 0 /\ s[Len(s)] = "/"

\* s.replace(/\/$/, "")
StripTrailingSlash(s) == IF EndsWithSlash(s) THEN SubSeq(s, 1, Len(s) - 1) ELSE s

\* s.replace(/^\/|\/$/g, ""): one leading slash, then one trailing slash of what is left
StripEdgeSlashes(s) == StripTrailingSlash(IF StartsWithSlash(s) THEN Tail(s) ELSE s)

HasSuffix(s, suf) ==
    Len(s) >= Len(suf) /\ SubSeq(s, Len(s) - Len(suf) + 1, Len(s)) = suf

HasPrefix(s, pre) == Len(s) >= Len(pre) /\ SubSeq(s, 1, Len(pre)) = pre

(* ---------------------------------------------------------------------- *)
(* application/x-www-form-urlencoded, as URLSearchParams.toString() writes *)
(* it: unreserved chunks stay, a space becomes "+", every other character  *)
(* is percent-encoded.                                                     *)
(* ---------------------------------------------------------------------- *)
EncodeAtom(a) ==
    CASE a = " " -> "+"
      [] a = "+" -> "%2B"
      [] a = "&" -> "%26"
      [] a = "=" -> "%3D"
      [] a = "," -> "%2C"
      [] a = "/" -> "%2F"
      [] a = "?" -> "%3F"
      [] OTHER -> a

FormEncode(s) == [i \in 1..Len(s) |-> EncodeAtom(s[i])]

RECURSIVE JoinParams(_)
\* "k1=v1&k2=v2..." for a sequence of [k, v] pairs with string values
JoinParams(ps) ==
    IF ps = <<>> THEN <<>>
    ELSE FormEncode(ps[1].k) \o <<"=">> \o FormEncode(ps[1].v)
         \o (IF Len(ps) > 1 THEN <<"&">> \o JoinParams(Tail(ps)) ELSE <<>>)

\* for (const key in queryParams) stringParams[key] = String(queryParams[key])
StringParams(ps) == [i \in 1..Len(ps) |-> [k |-> ps[i].k, v |-> ToStr(ps[i].v)]]

(* ---------------------------------------------------------------------- *)
(* Configuration: process.env                                             *)
(* ---------------------------------------------------------------------- *)
DefaultApiPath == <<"/", "api", "/", "v2">>

BaseUrls ==
    { Undefined, Str(<<>>),
      Str(<<"http:", "/", "/", "h">>),
      Str(<<"http:", "/", "/", "h", "/">>) }

ApiPaths == { Undefined, Str(<<"/", "cms", "/", "api", "/">>), Str(<<"api">>) }

ApiKeys == { Undefined, Str(<<>>), Str(<<"k">>) }

EnvSet ==
    [WAGTAIL_BASE_URL : BaseUrls, WAGTAIL_API_PATH : ApiPaths, WAGTAIL_API_KEY : ApiKeys]

\* process.env.WAGTAIL_API_PATH || "/api/v2"
ApiPathOf(e) ==
    IF Falsy(e.WAGTAIL_API_PATH) THEN DefaultApiPath ELSE e.WAGTAIL_API_PATH.v

\* A thrown error: its class (Error, UserError), the fixed part of its message, and what
\* the message interpolates: the identifier (or the inner error's message) and the status.
Err(class, msg, ident, status) ==
    [class |-> class, msg |-> msg, ident |-> ident, status |-> status]

Throw(class, msg) == [t |-> "throw", error |-> Err(class, msg, Undefined, Undefined)]

ConfigError == Throw("Error", "Server configuration error: WAGTAIL_BASE_URL is not set.")

\* getWagtailApiUrl that tests the base URL for undefined only
getWagtailApiUrlUnsetOnly(e, specificPath, queryParams) ==
    IF e.WAGTAIL_BASE_URL = Undefined THEN ConfigError
    ELSE
        LET normalizedBaseUrl == StripTrailingSlash(e.WAGTAIL_BASE_URL.v)
            normalizedApiPath == <<"/">> \o StripEdgeSlashes(ApiPathOf(e))
            normalizedSpecificPath ==
                IF specificPath # <<>> /\ ~StartsWithSlash(specificPath)
                THEN <<"/">> \o specificPath
                ELSE specificPath
            fullUrl == normalizedBaseUrl \o normalizedApiPath \o normalizedSpecificPath
        IN  [t |-> "url",
             v |-> IF Len(queryParams) > 0
                   THEN fullUrl \o <<"?">> \o JoinParams(StringParams(queryParams))
                   ELSE fullUrl]

\* getWagtailApiUrl that joins the base URL and the fragment as they come
getWagtailApiUrlAsGiven(e, specificPath, queryParams) ==
    IF Falsy(e.WAGTAIL_BASE_URL) THEN ConfigError
    ELSE
        LET normalizedApiPath == <<"/">> \o StripEdgeSlashes(ApiPathOf(e))
            fullUrl == e.WAGTAIL_BASE_URL.v \o normalizedApiPath \o specificPath
        IN  [t |-> "url",
             v |-> IF Len(queryParams) > 0
                   THEN fullUrl \o <<"?">> \o JoinParams(StringParams(queryParams))
                   ELSE fullUrl]

\* getWagtailApiUrl(specificPath, queryParams): the URL, or the thrown error
getWagtailApiUrl(e, specificPath, queryParams) ==
    IF Falsy(e.WAGTAIL_BASE_URL) THEN ConfigError
    ELSE
        LET normalizedBaseUrl == StripTrailingSlash(e.WAGTAIL_BASE_URL.v)
            normalizedApiPath == <<"/">> \o StripEdgeSlashes(ApiPathOf(e))
            normalizedSpecificPath ==
                IF specificPath # <<>> /\ ~StartsWithSlash(specificPath)
                THEN <<"/">> \o specificPath
                ELSE specificPath
            fullUrl == normalizedBaseUrl \o normalizedApiPath \o normalizedSpecificPath
        IN  [t |-> "url",
             v |-> IF Len(queryParams) > 0
                   THEN fullUrl \o <<"?">> \o JoinParams(StringParams(queryParams))
                   ELSE fullUrl]

\* getWagtailApiKey()
getWagtailApiKey(e) == e.WAGTAIL_API_KEY

\* Headers that adds Authorization for every key that is defined, the empty one too
HeadersForDefinedKey(apiKey) ==
    [Accept |-> <<"application/json">>,
     Authorization |-> IF apiKey = Undefined THEN Undefined ELSE Str(<<"Bearer ">> \o apiKey.v)]

\* const headers = { "Accept": "application/json" }; if (apiKey) headers["Authorization"] = ...
Headers(apiKey) ==
    [Accept |-> <<"application/json">>,
     Authorization |-> IF Falsy(apiKey) THEN Undefined ELSE Str(<<"Bearer ">> \o apiKey.v)]

(* ---------------------------------------------------------------------- *)
(* The provider (axios.get): what an outbound call can come back with      *)
(* ---------------------------------------------------------------------- *)
\* no response at all: network failure, timeout (an AxiosError without .response)
NoResponse == [t |-> "noresponse"]

Http(status, data) == [t |-> "http", status |-> status, data |-> data]

\* axios default validateStatus: the promise resolves for 2xx and rejects otherwise
Resolves(resp) == resp.t = "http" /\ resp.status >= 200 /\ resp.status < 300

\* error.response?.status
StatusOf(resp) == IF resp.t = "http" THEN Num(resp.status) ELSE Undefined

FailureStatuses == {400, 404, 500}

Failures == {NoResponse} \cup {Http(s, Null) : s \in FailureStatuses}

(* ---------------------------------------------------------------------- *)
(* Parameter validation (zod), run by the framework before execute         *)
(* ---------------------------------------------------------------------- *)
\* zNullToUndefined: preprocess((val) => val == null ? undefined : val, schema)
zNullToUndefined(x) == IF IsNullish(x) THEN Undefined ELSE x

\* new URL(s): the forms modelled are "http://host" followed by an optional path;
\* anything else here (no scheme) does not parse.  A special-scheme URL with an
\* empty path has pathname "/".
UrlParses(s) ==
    /\ Len(s) >= 4
    /\ s[1] = "http:" /\ s[2] = "/" /\ s[3] = "/"
    /\ s[4] # "/"

UrlPathname(s) == IF Len(s) = 4 THEN <<"/">> ELSE SubSeq(s, 5, Len(s))

IsOptional(x, ok) == x.t = "undefined" \/ ok

\* z.number().int().nonnegative()
IsNonnegativeInt(x) == x.t = "number" /\ x.v >= 0

\* z.number().int().positive()
IsPositiveInt(x) == x.t = "number" /\ x.v > 0

IsString(x) == x.t = "string"

\* z.string().url()
IsUrlString(x) == x.t = "string" /\ UrlParses(x.v)

\* the framework's answer to arguments the schema rejects
InvalidParams == Err("McpError", "InvalidParams", Undefined, Undefined)

(* ---------------------------------------------------------------------- *)
(* get_page_details                                                       *)
(* ---------------------------------------------------------------------- *)
PageDetailIds == {Undefined, Null, Num(0), Num(5), Num(-1)}

PageDetailSlugs == {Undefined, Null, Str(<<>>), Str(<<"x">>)}

PageDetailUrls ==
    { Undefined, Null,
      Str(<<"http:", "/", "/", "h">>),
      Str(<<"http:", "/", "/", "h", "/", "a", "/", "b", "/">>),
      Str(<<"http:", "/", "/", "h", "/", "/", "a", "/", "/">>),
      Str(<<"h", "/", "a">>) }

PageDetailFields == {Undefined, Null, Str(<<"*", ",", "-title">>)}

PageDetailInputs ==
    [id : PageDetailIds, slug : PageDetailSlugs, url : PageDetailUrls, fields : PageDetailFields]

\* PageDetailsParse without the refinement that asks for one identifier
PageDetailsParseNoRefine(raw) ==
    LET data == [id |-> zNullToUndefined(raw.id),
                 slug |-> zNullToUndefined(raw.slug),
                 url |-> zNullToUndefined(raw.url),
                 fields |-> zNullToUndefined(raw.fields)]
    IN  [ok |-> /\ IsOptional(data.id, IsNonnegativeInt(data.id))
                /\ IsOptional(data.slug, IsString(data.slug))
                /\ IsOptional(data.url, IsUrlString(data.url))
                /\ IsOptional(data.fields, IsString(data.fields)),
         data |-> data]

\* PageDetailsParse whose slug is declared non-empty (min(1))
PageDetailsParseSlugNonEmpty(raw) ==
    LET data == [id |-> zNullToUndefined(raw.id),
                 slug |-> zNullToUndefined(raw.slug),
                 url |-> zNullToUndefined(raw.url),
                 fields |-> zNullToUndefined(raw.fields)]
        shape == /\ IsOptional(data.id, IsNonnegativeInt(data.id))
                 /\ IsOptional(data.slug, IsString(data.slug) /\ data.slug.v # <<>>)
                 /\ IsOptional(data.url, IsUrlString(data.url))
                 /\ IsOptional(data.fields, IsString(data.fields))
        refine == data.id # Undefined \/ data.slug # Undefined \/ data.url # Undefined
    IN  [ok |-> shape /\ refine, data |-> data]

\* PageDetailsParse whose url is any string (z.string() without .url())
PageDetailsParseUrlUnchecked(raw) ==
    LET data == [id |-> zNullToUndefined(raw.id),
                 slug |-> zNullToUndefined(raw.slug),
                 url |-> zNullToUndefined(raw.url),
                 fields |-> zNullToUndefined(raw.fields)]
        shape == /\ IsOptional(data.id, IsNonnegativeInt(data.id))
                 /\ IsOptional(data.slug, IsString(data.slug))
                 /\ IsOptional(data.url, IsString(data.url))
                 /\ IsOptional(data.fields, IsString(data.fields))
        refine == data.id # Undefined \/ data.slug # Undefined \/ data.url # Undefined
    IN  [ok |-> shape /\ refine, data |-> data]

\* parameters.safeParse(raw): the parsed arguments, or a failure
PageDetailsParse(raw) ==
    LET data == [id |-> zNullToUndefined(raw.id),
                 slug |-> zNullToUndefined(raw.slug),
                 url |-> zNullToUndefined(raw.url),
                 fields |-> zNullToUndefined(raw.fields)]
        shape == /\ IsOptional(data.id, IsNonnegativeInt(data.id))
                 /\ IsOptional(data.slug, IsString(data.slug))
                 /\ IsOptional(data.url, IsUrlString(data.url))
                 /\ IsOptional(data.fields, IsString(data.fields))
        refine == data.id # Undefined \/ data.slug # Undefined \/ data.url # Undefined
    IN  [ok |-> shape /\ refine, data |-> data]

\* EffectiveArgs that keeps an id of 0
EffectiveArgsKeepZero(a) == a

\* let effectiveArgs = { ...args }; if (effectiveArgs.id === 0) effectiveArgs.id = undefined
EffectiveArgs(a) == IF a.id = Num(0) THEN [a EXCEPT !.id = Undefined] ELSE a

\* PageDetailsResolve with the slug branch tested before the id branch
PageDetailsResolveSlugFirst(eff) ==
    IF eff.slug # Undefined
    THEN [t |-> "ok", endpoint |-> <<"pages", "/", "find", "/">>,
          params |-> <<[k |-> <<"html_path">>, v |-> eff.slug]>>]
    ELSE IF eff.id # Undefined
    THEN [t |-> "ok", endpoint |-> <<"pages", "/">> \o ToStr(eff.id) \o <<"/">>, params |-> <<>>]
    ELSE IF eff.url # Undefined
    THEN [t |-> "ok", endpoint |-> <<"pages", "/", "find", "/">>,
          params |-> <<[k |-> <<"html_path">>,
                        v |-> Str(StripEdgeSlashes(UrlPathname(eff.url.v)))]>>]
    ELSE Throw("Error", "Internal error: No valid parameter found.")

\* the id / slug / url branch of execute: the endpoint under the API path and the query
PageDetailsResolve(eff) ==
    IF eff.id # Undefined
    THEN [t |-> "ok", endpoint |-> <<"pages", "/">> \o ToStr(eff.id) \o <<"/">>, params |-> <<>>]
    ELSE IF eff.slug # Undefined
    THEN [t |-> "ok", endpoint |-> <<"pages", "/", "find", "/">>,
          params |-> <<[k |-> <<"html_path">>, v |-> eff.slug]>>]
    ELSE IF eff.url # Undefined
    THEN IF UrlParses(eff.url.v)
         THEN [t |-> "ok", endpoint |-> <<"pages", "/", "find", "/">>,
               params |-> <<[k |-> <<"html_path">>,
                             v |-> Str(StripEdgeSlashes(UrlPathname(eff.url.v)))]>>]
         ELSE Throw("UserError", "Invalid URL format provided")
    ELSE Throw("Error", "Internal error: No valid parameter found.")

\* PageDetailsFieldsParam that asks for every field when no fields string is given
PageDetailsFieldsParamDefaultStar(eff) ==
    <<[k |-> <<"fields">>, v |-> IF eff.fields # Undefined THEN eff.fields ELSE Str(<<"*">>)]>>

\* PageDetailsFieldsParam that always asks for every field
PageDetailsFieldsParamStar(eff) == <<[k |-> <<"fields">>, v |-> Str(<<"*">>)]>>

\* if (effectiveArgs.fields !== undefined) queryParams.fields = effectiveArgs.fields
PageDetailsFieldsParam(eff) ==
    IF eff.fields # Undefined THEN <<[k |-> <<"fields">>, v |-> eff.fields]>> ELSE <<>>

\* execute up to the axios call: the request, or the error thrown before it
PageDetailsPrepare(e, a) ==
    LET eff == EffectiveArgs(a)
        apiBasePath == StripEdgeSlashes(ApiPathOf(e))
        resolved == PageDetailsResolve(eff)
    IN  IF a.id = Num(0) /\ eff.slug = Undefined /\ eff.url = Undefined
        THEN Throw("UserError", "At least one valid 'id' (non-zero), 'slug', or 'url' must be provided.")
        ELSE IF Falsy(e.WAGTAIL_BASE_URL) THEN ConfigError
        ELSE IF resolved.t = "throw" THEN resolved
        ELSE [t |-> "request", eff |-> eff,
              req |-> [url |-> StripTrailingSlash(e.WAGTAIL_BASE_URL.v)
                               \o <<"/">> \o apiBasePath \o <<"/">> \o resolved.endpoint,
                       params |-> resolved.params \o PageDetailsFieldsParam(eff),
                       headers |-> Headers(e.WAGTAIL_API_KEY),
                       timeout |-> Undefined, signal |-> Undefined]]

\* PageDetailsCatch whose 404 names the slug before the id
PageDetailsCatchSlugFirst(eff, resp) ==
    IF ~Resolves(resp)
    THEN LET status == StatusOf(resp)
         IN  IF status = Num(404)
             THEN Err("UserError", "Page not found for identifier",
                      IF eff.slug # Undefined THEN eff.slug
                      ELSE IF eff.id # Undefined THEN eff.id ELSE eff.url,
                      status)
             ELSE IF ~Falsy(status) /\ status.v >= 400 /\ status.v < 500
             THEN Err("UserError", "Client error calling Wagtail API", Undefined, status)
             ELSE Err("Error", "Server or network error calling Wagtail API", Undefined, status)
    ELSE Err("Error", "An unexpected error occurred", Str(<<"API returned empty data.">>), Undefined)

\* the catch block: the error rethrown for a failed call or a failure in the try block
PageDetailsCatch(eff, resp) ==
    IF ~Resolves(resp)
    THEN LET status == StatusOf(resp)
         IN  IF status = Num(404)
             THEN Err("UserError", "Page not found for identifier",
                      IF eff.id # Undefined THEN eff.id
                      ELSE IF eff.slug # Undefined THEN eff.slug ELSE eff.url,
                      status)
             ELSE IF ~Falsy(status) /\ status.v >= 400 /\ status.v < 500
             THEN Err("UserError", "Client error calling Wagtail API", Undefined, status)
             ELSE Err("Error", "Server or network error calling Wagtail API", Undefined, status)
    ELSE Err("Error", "An unexpected error occurred", Str(<<"API returned empty data.">>), Undefined)

\* the try block and its catch: [result, error] of the invocation
PageDetailsFinish(eff, resp) ==
    IF Resolves(resp) /\ ~Falsy(resp.data)
    THEN [result |-> resp.data, error |-> Undefined]
    ELSE [result |-> Undefined, error |-> PageDetailsCatch(eff, resp)]

PageObject == [t |-> "object", id |-> Num(5), title |-> Str(<<"Home">>)]

PageDetailResponses == Failures \cup {Http(200, Null), Http(200, PageObject)}

(* ---------------------------------------------------------------------- *)
(* Provider list bodies                                                   *)
(* ---------------------------------------------------------------------- *)
\* the longest items array a provider list response carries in the model
MaxItems == 2

SeqsUpTo(S, n) == UNION {[1..k -> S] : k \in 0..n}

Obj(fields) == [t |-> "object"] @@ fields

Arr(items) == [t |-> "array", v |-> items]

\* { meta: { total_count }, items }
ListBody(total, items) ==
    [t |-> "object", meta |-> [t |-> "object", total_count |-> total], items |-> items]

TotalCounts == {Undefined, Num(7)}

\* 200 bodies that are no list: no body, no meta, items missing, items not an array
BrokenListBodies ==
    { Null,
      [t |-> "object", meta |-> Undefined, items |-> Arr(<<>>)],
      ListBody(Num(7), Undefined),
      ListBody(Num(7), Str(<<"none">>)) }

(* ---------------------------------------------------------------------- *)
(* search_documents                                                       *)
(* ---------------------------------------------------------------------- *)
SearchTerms ==
    { <<"report">>, <<"annual", " ", "report">>, <<"a", "+", "b">>, <<"q", "&", "x", "=", "1">> }

DocSearchQueries == {Undefined, Null, Str(<<>>)} \cup {Str(q) : q \in SearchTerms}

DocSearchOperators == {Undefined, Null, Str(<<"and">>), Str(<<"or">>), Str(<<"xor">>)}

DocSearchInputs == [query : DocSearchQueries, search_operator : DocSearchOperators]

\* z.enum(["and", "or"])
IsSearchOperator(x) == x.t = "string" /\ x.v \in {<<"and">>, <<"or">>}

\* parameters.safeParse(raw)
DocSearchParse(raw) ==
    LET q == zNullToUndefined(raw.query)
        o == zNullToUndefined(raw.search_operator)
        data == [query |-> q,
                 search_operator |-> IF o.t = "undefined" THEN Str(<<"and">>) ELSE o]
    IN  [ok |-> /\ IsString(q) /\ Len(q.v) >= 1
                /\ IsOptional(o, IsSearchOperator(o)),
         data |-> data]

\* DocSearchQueryParams that sends the search term alone
DocSearchQueryParamsNoOperator(a) == << [k |-> <<"search">>, v |-> a.query] >>

\* const queryParams = { search: args.query }; queryParams.search_operator = args.search_operator
DocSearchQueryParams(a) ==
    << [k |-> <<"search">>, v |-> a.query],
       [k |-> <<"search_operator">>, v |-> a.search_operator] >>

\* execute up to the axios call
DocSearchPrepare(e, a) ==
    LET apiUrl == getWagtailApiUrl(e, <<"/", "documents", "/">>, DocSearchQueryParams(a))
    IN  IF apiUrl.t = "throw" THEN apiUrl
        ELSE [t |-> "request", eff |-> a,
              req |-> [url |-> apiUrl.v, params |-> <<>>,
                       headers |-> Headers(getWagtailApiKey(e)),
                       timeout |-> Undefined, signal |-> Undefined]]

\* DocItemInvalid without the download_url test
DocItemInvalidNoUrl(item) ==
    \/ Falsy(item)
    \/ TypeOf(item.id) # "number"
    \/ TypeOf(item.title) # "string"
    \/ Falsy(item.meta)

\* !item || typeof item.id !== 'number' || typeof item.title !== 'string'
\*   || !item.meta || typeof item.meta.download_url !== 'string'
DocItemInvalid(item) ==
    \/ Falsy(item)
    \/ TypeOf(item.id) # "number"
    \/ TypeOf(item.title) # "string"
    \/ Falsy(item.meta)
    \/ TypeOf(item.meta.download_url) # "string"

\* { id: item.id, title: item.title, download_url: item.meta.download_url }
DocRecord(item) ==
    [t |-> "object", id |-> item.id, title |-> item.title,
     download_url |-> item.meta.download_url]

\* DocSearchFilter that emits the records last to first
DocSearchFilterReversed(items) ==
    LET mapped == [i \in 1..Len(items) |->
                     IF DocItemInvalid(items[Len(items) + 1 - i]) THEN Null
                     ELSE DocRecord(items[Len(items) + 1 - i])]
    IN  SelectSeq(mapped, LAMBDA x : x.t # "null")

\* response.data.items.map(item => invalid ? null : record).filter(item => item !== null)
DocSearchFilter(items) ==
    LET mapped == [i \in 1..Len(items) |->
                     IF DocItemInvalid(items[i]) THEN Null ELSE DocRecord(items[i])]
    IN  SelectSeq(mapped, LAMBDA x : x.t # "null")

\* !response.data || !response.data.meta || !Array.isArray(response.data.items)
ListBodyInvalid(data) ==
    \/ Falsy(data)
    \/ Falsy(data.meta)
    \/ data.items.t # "array"

\* the error the catch block of a search tool rethrows for a failed call
\* SearchCatch with a branch of its own for status 404
SearchCatchNotFound(clientMsg, serverMsg, resp) ==
    LET status == StatusOf(resp)
    IN  IF status = Num(404)
        THEN Err("UserError", "Page not found for identifier", Undefined, status)
        ELSE IF ~Falsy(status) /\ status.v >= 400 /\ status.v < 500
        THEN Err("UserError", clientMsg, Undefined, status)
        ELSE Err("Error", serverMsg, Undefined, status)

SearchCatch(clientMsg, serverMsg, resp) ==
    LET status == StatusOf(resp)
    IN  IF ~Falsy(status) /\ status.v >= 400 /\ status.v < 500
        THEN Err("UserError", clientMsg, Undefined, status)
        ELSE Err("Error", serverMsg, Undefined, status)

\* the error rethrown for an Error thrown inside the try block
Unexpected(msg) == Err("Error", "An unexpected error occurred", Str(<<msg>>), Undefined)

\* DocSearchFinish that hands back an empty envelope next to the error for a broken body
DocSearchFinishPartial(a, resp) ==
    IF ~Resolves(resp)
    THEN [result |-> Undefined,
          error |-> SearchCatch("Client error calling Wagtail Documents API",
                                "Server or network error calling Wagtail Documents API",
                                resp)]
    ELSE IF ListBodyInvalid(resp.data)
    THEN [result |-> [count |-> Num(0), total_available |-> Undefined, items |-> <<>>],
          error |-> Unexpected("API request successful but response data missing or invalid.")]
    ELSE LET filteredItems == DocSearchFilter(resp.data.items.v)
         IN  [result |-> [count |-> Num(Len(filteredItems)),
                          total_available |-> resp.data.meta.total_count,
                          items |-> filteredItems],
              error |-> Undefined]

\* the try block and its catch
DocSearchFinish(a, resp) ==
    IF ~Resolves(resp)
    THEN [result |-> Undefined, error |-> SearchCatch("Client error calling Wagtail Documents API",
                                         "Server or network error calling Wagtail Documents API",
                                         resp)]
    ELSE IF ListBodyInvalid(resp.data)
    THEN [result |-> Undefined,
          error |-> Unexpected("API request successful but response data missing or invalid.")]
    ELSE LET filteredItems == DocSearchFilter(resp.data.items.v)
         IN  [result |-> [count |-> Num(Len(filteredItems)),
                          total_available |-> resp.data.meta.total_count,
                          items |-> filteredItems],
              error |-> Undefined]

DocMeta(url) == [t |-> "object", download_url |-> url]

DocItem(id, title, meta) == [t |-> "object", id |-> id, title |-> title, meta |-> meta]

DocItems ==
    { DocItem(Num(1), Str(<<"A">>), DocMeta(Str(<<"u1">>))),
      DocItem(Num(2), Str(<<"B">>), DocMeta(Str(<<"u2">>))),
      DocItem(Num(3), Str(<<"C">>), DocMeta(Undefined)),
      DocItem(Str(<<"4">>), Str(<<"D">>), DocMeta(Str(<<"u4">>))),
      DocItem(Num(5), Undefined, DocMeta(Str(<<"u5">>))),
      DocItem(Num(6), Str(<<"F">>), Undefined) }

DocSearchResponses ==
    Failures
    \cup {Http(200, b) : b \in BrokenListBodies}
    \cup {Http(200, ListBody(n, Arr(items))) :
             n \in TotalCounts, items \in SeqsUpTo(DocItems, MaxItems)}

(* ---------------------------------------------------------------------- *)
(* get_document_details                                                   *)
(* ---------------------------------------------------------------------- *)
DocDetailInputs == [id : {Undefined, Null, Num(0), Num(-1), Num(7), Num(999)}]

\* parameters.safeParse(raw): id is required, a positive integer
DocDetailsParse(raw) == [ok |-> IsPositiveInt(raw.id), data |-> raw]

\* execute up to the axios call
DocDetailsPrepare(e, a) ==
    LET apiUrl == getWagtailApiUrl(e, <<"/", "documents", "/">> \o ToStr(a.id) \o <<"/">>, <<>>)
    IN  IF apiUrl.t = "throw" THEN apiUrl
        ELSE [t |-> "request", eff |-> a,
              req |-> [url |-> apiUrl.v, params |-> <<>>,
                       headers |-> Headers(getWagtailApiKey(e)),
                       timeout |-> Undefined, signal |-> Undefined]]

\* DocDetailsCatch without the 404 branch
DocDetailsCatchNo404(a, resp) ==
    LET status == StatusOf(resp)
    IN  IF ~Falsy(status) /\ status.v >= 400 /\ status.v < 500
        THEN Err("UserError", "Client error calling Wagtail Document Detail API", Undefined, status)
        ELSE Err("Error", "Server or network error calling Wagtail Document Detail API",
                 Undefined, status)

\* the error the catch block rethrows for a failed call
DocDetailsCatch(a, resp) ==
    LET status == StatusOf(resp)
    IN  IF status = Num(404)
        THEN Err("UserError", "Document with ID not found.", a.id, status)
        ELSE IF ~Falsy(status) /\ status.v >= 400 /\ status.v < 500
        THEN Err("UserError", "Client error calling Wagtail Document Detail API", Undefined, status)
        ELSE Err("Error", "Server or network error calling Wagtail Document Detail API",
                 Undefined, status)

\* the try block and its catch
\* DocDetailsFinish that returns the provider object as it came
DocDetailsFinishVerbatim(a, resp) ==
    IF ~Resolves(resp)
    THEN [result |-> Undefined, error |-> DocDetailsCatch(a, resp)]
    ELSE IF DocItemInvalid(resp.data)
    THEN [result |-> Undefined,
          error |-> Unexpected("API request successful but response data structure is invalid.")]
    ELSE [result |-> resp.data, error |-> Undefined]

DocDetailsFinish(a, resp) ==
    IF ~Resolves(resp)
    THEN [result |-> Undefined, error |-> DocDetailsCatch(a, resp)]
    ELSE IF DocItemInvalid(resp.data)
    THEN [result |-> Undefined,
          error |-> Unexpected("API request successful but response data structure is invalid.")]
    ELSE [result |-> DocRecord(resp.data), error |-> Undefined]

DocDetailResponses == Failures \cup {Http(200, Null)} \cup {Http(200, d) : d \in DocItems}

(* ---------------------------------------------------------------------- *)
(* search_pages                                                           *)
(* ---------------------------------------------------------------------- *)
PageSearchInputs ==
    [query : {Undefined, Str(<<>>), Str(<<"news">>)},
     type : {Undefined, Str(<<"blog.BlogPage">>)},
     locale : {Undefined, Str(<<"es">>)},
     limit : {Undefined, Num(0), Num(10)},
     offset : {Undefined, Num(-1), Num(20)},
     search_operator : {Undefined, Null, Str(<<"or">>)}]

\* parameters.safeParse(raw): no null preprocessing; locale and limit have defaults
PageSearchParse(raw) ==
    [ok |-> /\ IsOptional(raw.query, IsString(raw.query))
            /\ IsOptional(raw.type, IsString(raw.type))
            /\ IsOptional(raw.locale, IsString(raw.locale))
            /\ IsOptional(raw.limit, IsPositiveInt(raw.limit))
            /\ IsOptional(raw.offset, IsNonnegativeInt(raw.offset))
            /\ IsOptional(raw.search_operator, IsSearchOperator(raw.search_operator)),
     data |-> [raw EXCEPT
                 !.locale = IF raw.locale.t = "undefined" THEN Str(<<"en">>) ELSE raw.locale,
                 !.limit = IF raw.limit.t = "undefined" THEN Num(50) ELSE raw.limit]]

\* if (cond) queryParams[key] = value
ParamIf(cond, key, value) == IF cond THEN <<[k |-> <<key>>, v |-> value]>> ELSE <<>>

\* PageSearchQueryParams that sends search_operator "and" when the caller gave none
PageSearchQueryParamsDefaultOperator(a) ==
    <<[k |-> <<"limit">>, v |-> a.limit]>>
    \o ParamIf(~Falsy(a.query), "search", a.query)
    \o ParamIf(a.type # Undefined, "type", a.type)
    \o ParamIf(a.locale # Undefined, "locale", a.locale)
    \o ParamIf(a.offset # Undefined, "offset", a.offset)
    \o <<[k |-> <<"search_operator">>,
          v |-> IF a.search_operator # Undefined THEN a.search_operator ELSE Str(<<"and">>)]>>

\* const queryParams = { limit: args.limit }; then one key per argument that is there
PageSearchQueryParams(a) ==
    <<[k |-> <<"limit">>, v |-> a.limit]>>
    \o ParamIf(~Falsy(a.query), "search", a.query)
    \o ParamIf(a.type # Undefined, "type", a.type)
    \o ParamIf(a.locale # Undefined, "locale", a.locale)
    \o ParamIf(a.offset # Undefined, "offset", a.offset)
    \o ParamIf(a.search_operator # Undefined, "search_operator", a.search_operator)

\* execute up to the axios call
PageSearchPrepare(e, a) ==
    LET apiUrl == getWagtailApiUrl(e, <<"/", "pages", "/">>, PageSearchQueryParams(a))
    IN  IF apiUrl.t = "throw" THEN apiUrl
        ELSE [t |-> "request", eff |-> a,
              req |-> [url |-> apiUrl.v, params |-> <<>>,
                       headers |-> Headers(getWagtailApiKey(e)),
                       timeout |-> Undefined, signal |-> Undefined]]

\* OutputPage that keeps the further top-level field of the provider item
OutputPagePassThrough(item) ==
    [t |-> "object",
     id |-> item.id,
     type |-> item.meta.type,
     locale |-> item.meta.locale,
     title |-> item.title,
     slug |-> item.meta.slug,
     url |-> item.meta.html_url,
     detail_api_url |-> item.meta.detail_url,
     intro |-> item.intro]

\* results.items.map(item => ({ id, type, locale, title, slug, url, detail_api_url }))
OutputPage(item) ==
    [t |-> "object",
     id |-> item.id,
     type |-> item.meta.type,
     locale |-> item.meta.locale,
     title |-> item.title,
     slug |-> item.meta.slug,
     url |-> item.meta.html_url,
     detail_api_url |-> item.meta.detail_url]

\* the try block and its catch
PageSearchFinish(a, resp) ==
    IF ~Resolves(resp)
    THEN [result |-> Undefined, error |-> SearchCatch("Client error calling Wagtail API",
                                         "Server or network error calling Wagtail API", resp)]
    ELSE IF Falsy(resp.data) \/ Falsy(resp.data.meta) \/ resp.data.items.t = "undefined"
    THEN [result |-> Undefined,
          error |-> Unexpected("Received invalid data structure from Wagtail API.")]
    ELSE IF resp.data.items.t # "array"
    THEN [result |-> Undefined, error |-> Unexpected("results.items.map is not a function")]
    ELSE LET items == resp.data.items.v
         IN  IF \E i \in 1..Len(items) : IsNullish(items[i]) \/ IsNullish(items[i].meta)
             THEN [result |-> Undefined,
                   error |-> Unexpected("Cannot read properties of undefined")]
             ELSE [result |-> [count |-> resp.data.meta.total_count,
                               items |-> [i \in 1..Len(items) |-> OutputPage(items[i])]],
                   error |-> Undefined]

PageMeta(type, slug, locale) ==
    [t |-> "object", type |-> Str(<<type>>), slug |-> Str(<<slug>>),
     html_url |-> Str(<<"http:", "/", "/", "h", "/", slug, "/">>),
     detail_url |-> Str(<<"http:", "/", "/", "h", "/", "api", "/", "v2", "/", "pages", "/", slug, "/">>),
     locale |-> locale]

\* a provider page item: id, title, meta and one further top-level field
PageItem(id, title, meta, intro) ==
    [t |-> "object", id |-> Num(id), title |-> Str(<<title>>), meta |-> meta, intro |-> intro]

PageItems ==
    { PageItem(1, "Home", PageMeta("home.HomePage", "home", Str(<<"en">>)), Undefined),
      PageItem(2, "News", PageMeta("blog.BlogPage", "news", Undefined), Str(<<"Latest">>)),
      PageItem(3, "Draft", Undefined, Undefined) }

PageSearchResponses ==
    Failures
    \cup {Http(200, b) : b \in BrokenListBodies}
    \cup {Http(200, ListBody(n, Arr(items))) :
             n \in TotalCounts, items \in SeqsUpTo(PageItems, MaxItems)}

(* ---------------------------------------------------------------------- *)
(* A direct call of the exported URL builder                               *)
(* ---------------------------------------------------------------------- *)
BuilderPaths == { <<>>, <<"pages", "/">>, <<"/", "pages", "/">>, <<"/", "/", "pages", "/">> }

BuilderParams == { <<>>, <<[k |-> <<"limit">>, v |-> Num(10)], [k |-> <<"search">>, v |-> Str(<<"a", " ", "b">>)]>> }

(* ---------------------------------------------------------------------- *)
(* The server process: what main() reads and does                          *)
(* ---------------------------------------------------------------------- *)
\* String.prototype.toLowerCase on the letters the inputs use
LowerChar(c) ==
    CASE c = "F" -> "f"
      [] c = "A" -> "a"
      [] c = "L" -> "l"
      [] c = "S" -> "s"
      [] c = "E" -> "e"
      [] OTHER -> c

toLowerCase(s) == [i \in 1..Len(s) |-> LowerChar(s[i])]

EnableStdioValues ==
    { Undefined,
      Str(<<"f", "a", "l", "s", "e">>),
      Str(<<"F", "A", "L", "S", "E">>),
      Str(<<"F", "a", "l", "s", "e">>),
      Str(<<"t", "r", "u", "e">>),
      Str(<<"0">>),
      Str(<<>>),
      Str(<<"f", "a", "l", "s", "e", " ">>) }

\* the part of process.env main reads
ServerEnvs ==
    [MCP_ENABLE_STDIO : EnableStdioValues,
     MCP_SERVICE_NAME : {Undefined, Str(<<>>), Str(<<"w">>)},
     MCP_SERVICE_VERSION : {Undefined, Str(<<"1">>)}]

\* process.env.MCP_SERVICE_NAME || 'Wagtail MCP Server (Default)'
ServiceName(e) ==
    IF Falsy(e.MCP_SERVICE_NAME) THEN Str(<<"Wagtail MCP Server (Default)">>)
    ELSE e.MCP_SERVICE_NAME

\* process.env.MCP_SERVICE_VERSION || '0.1.0'
ServiceVersion(e) ==
    IF Falsy(e.MCP_SERVICE_VERSION) THEN Str(<<"0.1.0">>) ELSE e.MCP_SERVICE_VERSION

\* process.env.MCP_ENABLE_STDIO?.toLowerCase() !== 'false'
EnableStdio(e) ==
    IF e.MCP_ENABLE_STDIO = Undefined THEN TRUE
    ELSE toLowerCase(e.MCP_ENABLE_STDIO.v) # <<"f", "a", "l", "s", "e">>

SignalNames == {"SIGINT", "SIGTERM"}

MaxSignals == 2

\* the process as main is entered: nothing connected, no handler installed
Process(e) ==
    [env |-> e, pc |-> "start", connect |-> "none", transportConnected |-> FALSE,
     handlers |-> {}, received |-> <<>>, closing |-> <<>>, settled |-> Undefined,
     exit |-> Undefined]

\* the process the tools are served by: connected, handlers installed, no signal yet
ServingProcess ==
    [Process([MCP_ENABLE_STDIO |-> Undefined, MCP_SERVICE_NAME |-> Undefined,
              MCP_SERVICE_VERSION |-> Undefined])
       EXCEPT !.pc = "running", !.connect = "resolved", !.transportConnected = TRUE,
              !.handlers = SignalNames]

\* process.exit(code)
Exit(p, code) == [p EXCEPT !.pc = "exited", !.exit = [t |-> "exit", code |-> code]]

\* the default disposition of a signal nothing listens for: the process is terminated
Kill(p, s) == [p EXCEPT !.pc = "exited", !.exit = [t |-> "killed", signal |-> s]]

\* AfterTransport without the test of transportConnected
AfterTransportUnchecked(p) == [p EXCEPT !.pc = "running", !.handlers = SignalNames]

\* if (!transportConnected) process.exit(1); process.on('SIGINT', ..); process.on('SIGTERM', ..)
AfterTransport(p) ==
    IF ~p.transportConnected THEN Exit(p, 1)
    ELSE [p EXCEPT !.pc = "running", !.handlers = SignalNames]

\* ShutdownExitCode that is 0 whatever close did
ShutdownExitCodeZero(closed) == IF closed THEN 0 ELSE 0

\* shutdown's exit code: process.exit(0) after the await, process.exit(1) in the catch
ShutdownExitCode(closed) == IF closed THEN 0 ELSE 1

(* ---------------------------------------------------------------------- *)
(* The state machine: one invocation at a time, from the framework's call  *)
(* of the handler to the outcome it hands back                             *)
(* ---------------------------------------------------------------------- *)
\* what the framework hands the handler next to the arguments: no signal, one that is
\* live, one that is already aborted
AbortSignal(aborted) == [t |-> "signal", aborted |-> aborted]

Signals == {Undefined, AbortSignal(FALSE), AbortSignal(TRUE)}

MaxInFlight == 2

Slots == 1..MaxInFlight

\* a slot with no invocation in it
IdleInvocation ==
    [pc |-> "idle", op |-> "none", rawArgs |-> Undefined, args |-> Undefined,
     request |-> Undefined, response |-> Undefined, result |-> Undefined, error |-> Undefined]

Init ==
    /\ env \in EnvSet
    /\ pc = "idle"
    /\ op = "none"
    /\ rawArgs = Undefined
    /\ args = Undefined
    /\ request = Undefined
    /\ calls = 0
    /\ response = Undefined
    /\ result = Undefined
    /\ error = Undefined
    /\ built = Undefined
    /\ signal = Undefined
    /\ inv = [i \in Slots |-> IdleInvocation]
    /\ proc = ServingProcess

\* the framework rejects arguments the schema does not accept; execute never runs
Reject(name, raw) ==
    /\ pc' = "done"
    /\ op' = name
    /\ rawArgs' = raw
    /\ args' = Undefined
    /\ error' = InvalidParams
    /\ built' = Undefined
    /\ signal' \in Signals
    /\ UNCHANGED <<env, request, calls, response, result, inv, proc>>

\* execute runs up to its await: it throws, or it sends its one request
Start(name, raw, prepared) ==
    /\ op' = name
    /\ rawArgs' = raw
    /\ built' = Undefined
    /\ IF prepared.t = "throw"
       THEN /\ pc' = "done"
            /\ args' = Undefined
            /\ error' = prepared.error
            /\ UNCHANGED <<request, calls>>
       ELSE /\ pc' = "awaiting"
            /\ args' = prepared.eff
            /\ request' = prepared.req
            /\ calls' = calls + 1
            /\ UNCHANGED error
    /\ signal' \in Signals
    /\ UNCHANGED <<env, response, result, inv, proc>>

\* the awaited call settles and execute runs to its return or throw
Settle(resp, outcome) ==
    /\ pc' = "done"
    /\ response' = resp
    /\ result' = outcome.result
    /\ error' = outcome.error
    /\ UNCHANGED <<env, op, rawArgs, args, request, calls, built, signal, inv, proc>>

GetPageDetails ==
    /\ pc = "idle"
    /\ \E raw \in PageDetailInputs :
          LET parsed == PageDetailsParse(raw)
          IN  IF parsed.ok
              THEN Start("get_page_details", raw, PageDetailsPrepare(env, parsed.data))
              ELSE Reject("get_page_details", raw)

GetPageDetailsResponse ==
    /\ pc = "awaiting"
    /\ op = "get_page_details"
    /\ \E resp \in PageDetailResponses : Settle(resp, PageDetailsFinish(args, resp))

\* the outcome has been handed to the caller; nothing of the invocation is kept
Return ==
    /\ pc = "done"
    /\ pc' = "idle"
    /\ op' = "none"
    /\ rawArgs' = Undefined
    /\ args' = Undefined
    /\ request' = Undefined
    /\ calls' = 0
    /\ response' = Undefined
    /\ result' = Undefined
    /\ error' = Undefined
    /\ built' = Undefined
    /\ signal' = Undefined
    /\ UNCHANGED <<env, inv, proc>>

SearchDocuments ==
    /\ pc = "idle"
    /\ \E raw \in DocSearchInputs :
          LET parsed == DocSearchParse(raw)
          IN  IF parsed.ok
              THEN Start("search_documents", raw, DocSearchPrepare(env, parsed.data))
              ELSE Reject("search_documents", raw)

SearchDocumentsResponse ==
    /\ pc = "awaiting"
    /\ op = "search_documents"
    /\ \E resp \in DocSearchResponses : Settle(resp, DocSearchFinish(args, resp))

GetDocumentDetails ==
    /\ pc = "idle"
    /\ \E raw \in DocDetailInputs :
          LET parsed == DocDetailsParse(raw)
          IN  IF parsed.ok
              THEN Start("get_document_details", raw, DocDetailsPrepare(env, parsed.data))
              ELSE Reject("get_document_details", raw)

\* GetDocumentDetailsResponse that calls again after a failed call
GetDocumentDetailsResponseRetry ==
    /\ pc = "awaiting"
    /\ op = "get_document_details"
    /\ \E resp \in DocDetailResponses :
          IF ~Resolves(resp) /\ calls < 3
          THEN /\ calls' = calls + 1
               /\ response' = resp
               /\ UNCHANGED <<env, pc, op, rawArgs, args, request, result, error, built, signal, inv, proc>>
          ELSE Settle(resp, DocDetailsFinish(args, resp))

GetDocumentDetailsResponse ==
    /\ pc = "awaiting"
    /\ op = "get_document_details"
    /\ \E resp \in DocDetailResponses : Settle(resp, DocDetailsFinish(args, resp))

SearchPages ==
    /\ pc = "idle"
    /\ \E raw \in PageSearchInputs :
          LET parsed == PageSearchParse(raw)
          IN  IF parsed.ok
              THEN Start("search_pages", raw, PageSearchPrepare(env, parsed.data))
              ELSE Reject("search_pages", raw)

SearchPagesResponse ==
    /\ pc = "awaiting"
    /\ op = "search_pages"
    /\ \E resp \in PageSearchResponses : Settle(resp, PageSearchFinish(args, resp))

\* getWagtailApiUrl called on its own, outside an invocation
BuildUrl ==
    /\ pc = "idle"
    /\ \E specificPath \in BuilderPaths, queryParams \in BuilderParams :
          built' = [specificPath |-> specificPath, queryParams |-> queryParams,
                    out |-> getWagtailApiUrl(env, specificPath, queryParams)]
    /\ UNCHANGED <<env, pc, op, rawArgs, args, request, calls, response, result, error,
                   signal, inv, proc>>

Next ==
    \/ GetPageDetails
    \/ GetPageDetailsResponse
    \/ SearchDocuments
    \/ SearchDocumentsResponse
    \/ GetDocumentDetails
    \/ GetDocumentDetailsResponse
    \/ SearchPages
    \/ SearchPagesResponse
    \/ BuildUrl
    \/ Return

Spec == Init /\ [][Next]_vars

(* ---------------------------------------------------------------------- *)
(* The URL builder on its own, under the ways a deployment may write the   *)
(* base URL and the API path                                               *)
(* ---------------------------------------------------------------------- *)
BuilderEnvs ==
    [WAGTAIL_BASE_URL : BaseUrls \cup {Str(<<"http:", "/", "/", "h", "/", "/">>)},
     WAGTAIL_API_PATH : ApiPaths \cup {Str(<<"/", "api">>), Str(<<"/", "/", "api", "/", "/">>)},
     WAGTAIL_API_KEY : {Undefined}]

InitUrl ==
    /\ env \in BuilderEnvs
    /\ pc = "idle"
    /\ op = "none"
    /\ rawArgs = Undefined
    /\ args = Undefined
    /\ request = Undefined
    /\ calls = 0
    /\ response = Undefined
    /\ result = Undefined
    /\ error = Undefined
    /\ built = Undefined
    /\ signal = Undefined
    /\ inv = [i \in Slots |-> IdleInvocation]
    /\ proc = ServingProcess

NextUrl == BuildUrl

SpecUrl == InitUrl /\ [][NextUrl]_vars

(* ---------------------------------------------------------------------- *)
(* Invocations side by side: the framework calls a handler while others    *)
(* are suspended at their await; a handler runs without interruption from  *)
(* its call to its await, and from the settled await to its return         *)
(* ---------------------------------------------------------------------- *)
ToolNames == {"get_page_details", "search_documents", "get_document_details", "search_pages"}

\* the schema the framework validates the arguments of a tool against
ToolParse(name, raw) ==
    CASE name = "get_page_details" -> PageDetailsParse(raw)
      [] name = "search_documents" -> DocSearchParse(raw)
      [] name = "get_document_details" -> DocDetailsParse(raw)
      [] name = "search_pages" -> PageSearchParse(raw)

\* the execute function of a tool up to its await
ToolPrepare(name, e, a) ==
    CASE name = "get_page_details" -> PageDetailsPrepare(e, a)
      [] name = "search_documents" -> DocSearchPrepare(e, a)
      [] name = "get_document_details" -> DocDetailsPrepare(e, a)
      [] name = "search_pages" -> PageSearchPrepare(e, a)

\* the execute function of a tool from the settled await on
ToolFinish(name, a, resp) ==
    CASE name = "get_page_details" -> PageDetailsFinish(a, resp)
      [] name = "search_documents" -> DocSearchFinish(a, resp)
      [] name = "get_document_details" -> DocDetailsFinish(a, resp)
      [] name = "search_pages" -> PageSearchFinish(a, resp)

ConcEnvs ==
    { e \in EnvSet : /\ e.WAGTAIL_BASE_URL \in {Undefined, Str(<<"http:", "/", "/", "h">>)}
                     /\ e.WAGTAIL_API_PATH = Undefined
                     /\ e.WAGTAIL_API_KEY = Str(<<"k">>) }

\* the arguments the side-by-side invocations are called with
ConcInputs(name) ==
    CASE name = "get_page_details" ->
           { r \in PageDetailInputs :
               /\ r.url = Undefined
               /\ <<r.id, r.slug, r.fields>> \in
                     { <<Num(5), Undefined, Undefined>>,
                       <<Undefined, Str(<<"x">>), Str(<<"*", ",", "-title">>)>>,
                       <<Undefined, Undefined, Undefined>> } }
      [] name = "search_documents" ->
           { r \in DocSearchInputs :
               /\ r.search_operator = Undefined
               /\ r.query \in {Undefined, Str(<<"annual", " ", "report">>)} }
      [] name = "get_document_details" -> { r \in DocDetailInputs : r.id \in {Num(7), Num(999)} }
      [] name = "search_pages" ->
           { r \in PageSearchInputs :
               /\ r.type = Undefined /\ r.locale = Undefined /\ r.offset = Undefined
               /\ r.search_operator = Undefined
               /\ r.query = Str(<<"news">>) }

\* what their calls come back with
ConcResponses(name) ==
    CASE name = "get_page_details" -> {NoResponse, Http(404, Null), Http(200, PageObject)}
      [] name = "search_documents" ->
           { r \in DocSearchResponses :
               \/ r = Http(500, Null)
               \/ /\ Resolves(r) /\ ~ListBodyInvalid(r.data)
                  /\ r.data.meta.total_count = Num(7)
                  /\ Len(r.data.items.v) = 1 }
      [] name = "get_document_details" ->
           { r \in DocDetailResponses : r = Http(404, Null) \/ Resolves(r) }
      [] name = "search_pages" ->
           { r \in PageSearchResponses :
               \/ r = Http(400, Null)
               \/ /\ Resolves(r) /\ ~Falsy(r.data) /\ ~Falsy(r.data.meta)
                  /\ r.data.meta.total_count = Num(7)
                  /\ r.data.items.t = "array" /\ Len(r.data.items.v) = 1 }

\* the framework calls the handler of slot i: validation, then execute up to its await
Invoke(i) ==
    /\ inv[i].pc = "idle"
    /\ \E name \in ToolNames : \E raw \in ConcInputs(name) :
          LET parsed == ToolParse(name, raw)
              called == [IdleInvocation EXCEPT !.op = name, !.rawArgs = raw]
          IN  IF ~parsed.ok
              THEN inv' = [inv EXCEPT ![i] = [called EXCEPT !.pc = "done", !.error = InvalidParams]]
              ELSE LET prepared == ToolPrepare(name, env, parsed.data)
                   IN  IF prepared.t = "throw"
                       THEN inv' = [inv EXCEPT ![i] =
                                      [called EXCEPT !.pc = "done", !.error = prepared.error]]
                       ELSE inv' = [inv EXCEPT ![i] =
                                      [called EXCEPT !.pc = "awaiting", !.args = prepared.eff,
                                                     !.request = prepared.req]]
    /\ UNCHANGED <<env, pc, op, rawArgs, args, request, calls, response, result, error, built,
                   signal, proc>>

\* RespondTo that finishes with the arguments the handler was started with last
RespondToLastArgs(i) ==
    /\ inv[i].pc = "awaiting"
    /\ \E resp \in ConcResponses(inv[i].op) :
          LET j == CHOOSE k \in Slots : k # i
              a == IF inv[j].op = inv[i].op /\ inv[j].args # Undefined
                   THEN inv[j].args ELSE inv[i].args
              outcome == ToolFinish(inv[i].op, a, resp)
          IN  inv' = [inv EXCEPT ![i] = [@ EXCEPT !.pc = "done", !.response = resp,
                                                  !.result = outcome.result,
                                                  !.error = outcome.error]]
    /\ UNCHANGED <<env, pc, op, rawArgs, args, request, calls, response, result, error, built,
                   signal, proc>>

\* the call of slot i settles and its handler runs to its return or throw
RespondTo(i) ==
    /\ inv[i].pc = "awaiting"
    /\ \E resp \in ConcResponses(inv[i].op) :
          LET outcome == ToolFinish(inv[i].op, inv[i].args, resp)
          IN  inv' = [inv EXCEPT ![i] = [@ EXCEPT !.pc = "done", !.response = resp,
                                                  !.result = outcome.result,
                                                  !.error = outcome.error]]
    /\ UNCHANGED <<env, pc, op, rawArgs, args, request, calls, response, result, error, built,
                   signal, proc>>

\* the outcome of slot i has been handed to its caller
Deliver(i) ==
    /\ inv[i].pc = "done"
    /\ inv' = [inv EXCEPT ![i] = IdleInvocation]
    /\ UNCHANGED <<env, pc, op, rawArgs, args, request, calls, response, result, error, built,
                   signal, proc>>

InitConc == Init /\ env \in ConcEnvs

NextConc == \E i \in Slots : Invoke(i) \/ RespondTo(i) \/ Deliver(i)

SpecConc == InitConc /\ [][NextConc]_vars

(* ---------------------------------------------------------------------- *)
(* The server process: its steps                                           *)
(* ---------------------------------------------------------------------- *)
\* main from its entry to its first await, or to its end when it never awaits; a throw
\* of the constructor or of a registration goes to main().catch
Main ==
    /\ proc.pc = "start"
    /\ \E throws \in BOOLEAN :
          proc' = IF Falsy(ServiceName(proc.env)) \/ Falsy(ServiceVersion(proc.env))
                  THEN Exit(proc, 1)
                  ELSE IF throws THEN Exit(proc, 1)
                  ELSE IF EnableStdio(proc.env) THEN [proc EXCEPT !.pc = "connecting"]
                  ELSE AfterTransport(proc)
    /\ UNCHANGED <<env, pc, op, rawArgs, args, request, calls, response, result, error, built,
                   signal, inv>>

\* await server.connect(transport) settles and main runs to its end
ConnectSettles ==
    /\ proc.pc = "connecting"
    /\ \E connected \in BOOLEAN :
          proc' = AfterTransport([proc EXCEPT
                                    !.connect = IF connected THEN "resolved" ELSE "rejected",
                                    !.transportConnected = connected])
    /\ UNCHANGED <<env, pc, op, rawArgs, args, request, calls, response, result, error, built,
                   signal, inv>>

\* a signal reaches the process while it waits: shutdown runs to its await of
\* server.close() when the handler is installed, the process is terminated when not
ReceiveSignal(s) ==
    /\ proc.pc \in {"connecting", "running"}
    /\ Len(proc.received) < MaxSignals
    /\ proc' = IF s \in proc.handlers
               THEN [proc EXCEPT !.received = Append(@, s), !.closing = Append(@, s)]
               ELSE Kill([proc EXCEPT !.received = Append(@, s)], s)
    /\ UNCHANGED <<env, pc, op, rawArgs, args, request, calls, response, result, error, built,
                   signal, inv>>

\* one of the pending server.close() calls settles and its shutdown runs to process.exit
CloseSettles(i, closed) ==
    /\ proc.pc = "running"
    /\ i \in 1..Len(proc.closing)
    /\ proc' = Exit([proc EXCEPT !.settled = [t |-> "close", call |-> i, closed |-> closed]],
                    ShutdownExitCode(closed))
    /\ UNCHANGED <<env, pc, op, rawArgs, args, request, calls, response, result, error, built,
                   signal, inv>>

InitServer ==
    /\ env \in ConcEnvs
    /\ pc = "idle"
    /\ op = "none"
    /\ rawArgs = Undefined
    /\ args = Undefined
    /\ request = Undefined
    /\ calls = 0
    /\ response = Undefined
    /\ result = Undefined
    /\ error = Undefined
    /\ built = Undefined
    /\ signal = Undefined
    /\ inv = [i \in Slots |-> IdleInvocation]
    /\ proc \in {Process(e) : e \in ServerEnvs}

SettleClose == \E i \in 1..MaxSignals, closed \in BOOLEAN : CloseSettles(i, closed)

NextServer ==
    \/ Main
    \/ ConnectSettles
    \/ \E s \in SignalNames : ReceiveSignal(s)
    \/ SettleClose

\* a pending server.close() settles in the end
SpecServer == InitServer /\ [][NextServer]_vars /\ WF_vars(SettleClose)

(* ---------------------------------------------------------------------- *)
(* What the provider sees of a request                                     *)
(* ---------------------------------------------------------------------- *)
\* the first position of atom a in s, 0 when it is not there
IndexOf(s, a) ==
    IF \E i \in 1..Len(s) : s[i] = a
    THEN CHOOSE i \in 1..Len(s) : s[i] = a /\ \A j \in 1..(i - 1) : s[j] # a
    ELSE 0

RECURSIVE SplitOn(_, _)
SplitOn(s, a) ==
    LET i == IndexOf(s, a)
    IN  IF i = 0 THEN <<s>>
        ELSE <<SubSeq(s, 1, i - 1)>> \o SplitOn(SubSeq(s, i + 1, Len(s)), a)

\* form decoding as the provider does it: "+" is a space, "%XX" is the character
DecodeAtom(a) ==
    CASE a = "+" -> " "
      [] a = "%2B" -> "+"
      [] a = "%26" -> "&"
      [] a = "%3D" -> "="
      [] a = "%2C" -> ","
      [] a = "%2F" -> "/"
      [] a = "%3F" -> "?"
      [] OTHER -> a

FormDecode(s) == [i \in 1..Len(s) |-> DecodeAtom(s[i])]

\* the URL up to its query string
UrlPath(url) ==
    LET i == IndexOf(url, "?") IN IF i = 0 THEN url ELSE SubSeq(url, 1, i - 1)

\* the [k, v] pairs of the URL's query string, decoded
UrlPairs(url) ==
    LET i == IndexOf(url, "?")
        parts == IF i = 0 \/ i = Len(url) THEN <<>> ELSE SplitOn(SubSeq(url, i + 1, Len(url)), "&")
    IN  [n \in 1..Len(parts) |->
           LET j == IndexOf(parts[n], "=")
           IN  [k |-> FormDecode(SubSeq(parts[n], 1, j - 1)),
                v |-> Str(FormDecode(SubSeq(parts[n], j + 1, Len(parts[n]))))]]

\* every query pair of a request: those handed to axios as params and those in the URL
SentQuery(req) == req.params \o UrlPairs(req.url)

HasKey(pairs, key) == \E i \in 1..Len(pairs) : pairs[i].k = <<key>>

Lookup(pairs, key) ==
    IF HasKey(pairs, key)
    THEN pairs[CHOOSE i \in 1..Len(pairs) : pairs[i].k = <<key>>].v
    ELSE Undefined

Sent == request # Undefined

\* the taxonomy kind of a thrown error, read off its class and message
ErrorKind(err) ==
    CASE err.class = "McpError" -> "ValidationError"
      [] err.msg \in {"At least one valid 'id' (non-zero), 'slug', or 'url' must be provided.",
                      "Invalid URL format provided"} -> "ValidationError"
      [] err.msg = "Server configuration error: WAGTAIL_BASE_URL is not set." -> "ConfigurationError"
      [] err.msg \in {"Page not found for identifier", "Document with ID not found."}
           -> "ResourceNotFound"
      [] err.class = "UserError"
         /\ err.msg \in {"Client error calling Wagtail API",
                          "Client error calling Wagtail Documents API",
                          "Client error calling Wagtail Document Detail API"} -> "ClientError"
      [] err.class = "Error"
         /\ err.msg \in {"Server or network error calling Wagtail API",
                          "Server or network error calling Wagtail Documents API",
                          "Server or network error calling Wagtail Document Detail API"}
           -> "ProviderUnavailable"
      [] err.msg = "An unexpected error occurred" -> "ProviderResponseError"
      [] OTHER -> "InternalError"

(* ---------------------------------------------------------------------- *)
(* Claims                                                                 *)
(* ---------------------------------------------------------------------- *)
IdSupplied(raw) == raw.id.t = "number" /\ raw.id.v # 0

SlugSupplied(raw) == ~IsNullish(raw.slug)

UrlSupplied(raw) == ~IsNullish(raw.url)

FindPath == <<"/", "pages", "/", "find", "/">>

\* the page URLs of the input set whose path has at most one slash on each side
PlainUrls ==
    { <<"http:", "/", "/", "h">>, <<"http:", "/", "/", "h", "/", "a", "/", "b", "/">> }

\* the html_path such a URL stands for
HtmlPathOfUrl(u) ==
    CASE u = <<"http:", "/", "/", "h">> -> <<>>
      [] u = <<"http:", "/", "/", "h", "/", "a", "/", "b", "/">> -> <<"a", "/", "b">>

\* C1: a page-detail request is decided by the highest-priority identifier supplied
\* (id > slug > url): with a non-zero id the path is pages/{id}/ and there is no
\* html_path; with no id but a slug the path is pages/find/ and html_path is the slug;
\* the url decides only when neither id nor slug is supplied.
C1_IdentifierPriority ==
    (op = "get_page_details" /\ Sent) =>
        LET path == UrlPath(request.url)
            q == SentQuery(request)
        IN  /\ IdSupplied(rawArgs) =>
                  /\ HasSuffix(path, <<"/", "pages", "/", ToString(rawArgs.id.v), "/">>)
                  /\ ~HasKey(q, "html_path")
            /\ (~IdSupplied(rawArgs) /\ SlugSupplied(rawArgs)) =>
                  /\ HasSuffix(path, FindPath)
                  /\ Lookup(q, "html_path") = rawArgs.slug
            /\ (~IdSupplied(rawArgs) /\ ~SlugSupplied(rawArgs)) =>
                  /\ UrlSupplied(rawArgs)
                  /\ HasSuffix(path, FindPath)
                  /\ HasKey(q, "html_path")
                  /\ rawArgs.url.v \in PlainUrls =>
                        Lookup(q, "html_path") = Str(HtmlPathOfUrl(rawArgs.url.v))

C1_Witness ==
    /\ op = "get_page_details" /\ pc = "awaiting"
    /\ rawArgs.id = Num(5) /\ rawArgs.slug = Str(<<"x">>) /\ UrlSupplied(rawArgs)
    /\ HasSuffix(request.url, <<"/", "pages", "/", "5", "/">>)

\* the constraints each operation declares for its input
ViolatesConstraint(name, raw) ==
    CASE name = "get_page_details" ->
           \/ (raw.id.t = "number" /\ raw.id.v < 0)
           \/ (raw.url.t = "string" /\ raw.url.v \notin {<<"http:", "/", "/", "h">>,
                                                          <<"http:", "/", "/", "h", "/", "a", "/", "b", "/">>,
                                                          <<"http:", "/", "/", "h", "/", "/", "a", "/", "/">>})
           \/ (~IdSupplied(raw) /\ ~SlugSupplied(raw) /\ ~UrlSupplied(raw))
      [] name = "search_documents" ->
           \/ IsNullish(raw.query) \/ raw.query.v = <<>>
           \/ (raw.search_operator.t = "string"
               /\ raw.search_operator.v \notin {<<"and">>, <<"or">>})
      [] name = "get_document_details" ->
           raw.id.t # "number" \/ raw.id.v <= 0
      [] name = "search_pages" ->
           \/ (raw.limit.t = "number" /\ raw.limit.v <= 0)
           \/ (raw.offset.t = "number" /\ raw.offset.v < 0)
           \/ raw.search_operator.t = "null"
           \/ (raw.search_operator.t = "string"
               /\ raw.search_operator.v \notin {<<"and">>, <<"or">>})

Normalized(raw) ==
    [id |-> IF IsNullish(raw.id) \/ raw.id = Num(0) THEN Undefined ELSE raw.id,
     slug |-> IF IsNullish(raw.slug) THEN Undefined ELSE raw.slug,
     url |-> IF IsNullish(raw.url) THEN Undefined ELSE raw.url,
     fields |-> IF IsNullish(raw.fields) THEN Undefined ELSE raw.fields]

\* what page-detail does with an input before its call: the request, or the error kind
PageDetailsBeforeCall(e, raw) ==
    LET parsed == PageDetailsParse(raw)
        prepared == PageDetailsPrepare(e, parsed.data)
    IN  IF ~parsed.ok THEN [t |-> "throw", kind |-> "ValidationError"]
        ELSE IF prepared.t = "throw" THEN [t |-> "throw", kind |-> ErrorKind(prepared.error)]
        ELSE [t |-> "request", req |-> prepared.req, eff |-> prepared.eff]

\* C3: page-detail treats null and id = 0 as not supplied: the invocation is validated
\* and resolved exactly as for the same input with those fields omitted (same request,
\* same outcome); an id of 0 or null with a slug resolves to pages/find/ with that slug,
\* never to pages/0/, and an input left with no identifier is rejected.
C3_NullAndZeroAreAbsent ==
    (op = "get_page_details" /\ pc # "idle") =>
        LET canon == PageDetailsBeforeCall(env, Normalized(rawArgs))
        IN  /\ Sent <=> canon.t = "request"
            /\ Sent =>
                  /\ request = canon.req
                  /\ ~HasSuffix(UrlPath(request.url), <<"/", "pages", "/", "0", "/">>)
                  /\ (pc = "done" =>
                        PageDetailsFinish(canon.eff, response) = [result |-> result, error |-> error])
            /\ (~Sent /\ pc = "done") => ErrorKind(error) = canon.kind
            /\ (~IdSupplied(rawArgs) /\ ~SlugSupplied(rawArgs) /\ ~UrlSupplied(rawArgs)) =>
                  ~Sent /\ ErrorKind(error) = "ValidationError"

C3_Witness ==
    /\ op = "get_page_details" /\ pc = "done" /\ Sent
    /\ rawArgs.id = Num(0) /\ rawArgs.slug = Str(<<"x">>) /\ rawArgs.url = Null
    /\ HasSuffix(request.url, FindPath)
    /\ Lookup(SentQuery(request), "html_path") = Str(<<"x">>)
    /\ response = Http(404, Null) /\ error.ident = Str(<<"x">>)

\* C4: document search always sends search_operator: "and" when the caller omits it or
\* passes null, the supplied value when it is "and" or "or"; the search term arrives
\* unchanged under key search.
C4_DocSearchOperator ==
    (op = "search_documents" /\ Sent) =>
        LET q == SentQuery(request)
        IN  /\ HasKey(q, "search_operator")
            /\ Lookup(q, "search_operator") =
                  (IF IsNullish(rawArgs.search_operator) THEN Str(<<"and">>)
                   ELSE rawArgs.search_operator)
            /\ Lookup(q, "search_operator").v \in {<<"and">>, <<"or">>}
            /\ Lookup(q, "search") = rawArgs.query

C4_Witness ==
    /\ op = "search_documents" /\ pc = "awaiting"
    /\ rawArgs.query = Str(<<"annual", " ", "report">>)
    /\ rawArgs.search_operator = Null
    /\ Lookup(SentQuery(request), "search_operator") = Str(<<"and">>)
    /\ Lookup(SentQuery(request), "search") = Str(<<"annual", " ", "report">>)

\* a provider document item with a numeric id, a string title and a string download_url
GoodDoc(item) ==
    /\ item.t = "object"
    /\ item.id.t = "number"
    /\ item.title.t = "string"
    /\ item.meta.t = "object"
    /\ item.meta.download_url.t = "string"

\* a 200 response whose body is a list: an object with a meta object and an items array
ValidList(resp) ==
    /\ resp.t = "http" /\ resp.status = 200
    /\ resp.data.t = "object"
    /\ resp.data.meta.t = "object"
    /\ resp.data.items.t = "array"

\* C5: document search drops every provider item that lacks a numeric id, a string
\* title or a string meta.download_url without failing; count is the number of items
\* emitted and total_available is the provider's meta.total_count whatever was dropped.
C5_DocSearchCount ==
    (op = "search_documents" /\ pc = "done" /\ ValidList(response)) =>
        LET items == response.data.items.v
            good == {i \in 1..Len(items) : GoodDoc(items[i])}
        IN  /\ error = Undefined
            /\ result # Undefined
            /\ Len(result.items) = Cardinality(good)
            /\ result.count = Num(Len(result.items))
            /\ result.total_available = response.data.meta.total_count

C5_Witness ==
    /\ op = "search_documents" /\ pc = "done" /\ ValidList(response)
    /\ Len(response.data.items.v) = 2
    /\ \E i \in 1..2 : response.data.items.v[i].meta = DocMeta(Undefined)
    /\ result.count = Num(1)
    /\ result.total_available = Num(7)

\* a call that did not come back with a 2xx status
Failed(resp) == resp.t = "noresponse" \/ (resp.t = "http" /\ resp.status \notin 200..299)

\* the identifier a detail operation was asked for
RequestedIdentifier ==
    IF op = "get_document_details" \/ IdSupplied(rawArgs) THEN rawArgs.id
    ELSE IF SlugSupplied(rawArgs) THEN rawArgs.slug
    ELSE rawArgs.url

\* C6: the detail operations classify a failed call by its status: 404 is
\* ResourceNotFound and names the identifier requested, any other 4xx is ClientError,
\* 5xx or no response at all is ProviderUnavailable.
C6_DetailErrorKinds ==
    (op \in {"get_page_details", "get_document_details"} /\ pc = "done" /\ Sent /\ Failed(response)) =>
        /\ error # Undefined
        /\ response.t = "http" /\ response.status = 404 =>
              ErrorKind(error) = "ResourceNotFound" /\ error.ident = RequestedIdentifier
        /\ response.t = "http" /\ response.status \in (400..499) \ {404} =>
              ErrorKind(error) = "ClientError"
        /\ response.t = "noresponse" \/ response.status \in 500..599 =>
              ErrorKind(error) = "ProviderUnavailable"

C6_Witness ==
    /\ op = "get_document_details" /\ pc = "done"
    /\ rawArgs.id = Num(999)
    /\ response = Http(404, Null)
    /\ ErrorKind(error) = "ResourceNotFound" /\ error.ident = Num(999)

\* the one URL of the pages list under the configured API path
CanonicalPagesUrl(e) ==
    <<"http:", "/", "/", "h", "/">>
    \o (CASE e.WAGTAIL_API_PATH = Undefined -> <<"api", "/", "v2">>
          [] e.WAGTAIL_API_PATH = Str(<<"/", "cms", "/", "api", "/">>) -> <<"cms", "/", "api">>
          [] e.WAGTAIL_API_PATH = Str(<<"api">>) -> <<"api">>)
    \o <<"/", "pages", "/">>

\* C7: getWagtailApiUrl gives one and the same URL for the fragments "pages/" and
\* "/pages/" with no parameters, whether the base URL is "http://h" or "http://h/".
C7_SlashVariantsAgree ==
    (/\ built # Undefined
     /\ built.specificPath \in {<<"pages", "/">>, <<"/", "pages", "/">>}
     /\ built.queryParams = <<>>
     /\ env.WAGTAIL_BASE_URL \in {Str(<<"http:", "/", "/", "h">>), Str(<<"http:", "/", "/", "h", "/">>)})
    => (built.out.t = "url" /\ built.out.v = CanonicalPagesUrl(env))

C7_Witness ==
    /\ built # Undefined
    /\ built.specificPath = <<"pages", "/">>
    /\ built.queryParams = <<>>
    /\ env.WAGTAIL_BASE_URL = Str(<<"http:", "/", "/", "h", "/">>)
    /\ built.out.t = "url"
    /\ built.out.v = <<"http:", "/", "/", "h", "/", "api", "/", "v2", "/", "pages", "/">>

\* C8: a fields string given to page-detail is sent unmodified as the fields query
\* parameter, whichever identifier resolved the endpoint.
C8_FieldsPassThrough ==
    (op = "get_page_details" /\ Sent /\ rawArgs.fields.t = "string") =>
        Lookup(SentQuery(request), "fields") = rawArgs.fields

C8_Witness ==
    /\ op = "get_page_details" /\ pc = "awaiting"
    /\ ~IdSupplied(rawArgs) /\ ~SlugSupplied(rawArgs) /\ UrlSupplied(rawArgs)
    /\ rawArgs.fields = Str(<<"*", ",", "-title">>)
    /\ HasSuffix(request.url, FindPath)
    /\ Lookup(SentQuery(request), "fields") = Str(<<"*", ",", "-title">>)

\* C9: an invocation ends in a result or in an error, never both: once validation,
\* configuration, the call or the projection has failed, no result is returned.
C9_ResultXorError ==
    /\ ~(result # Undefined /\ error # Undefined)
    /\ pc = "done" => (result # Undefined \/ error # Undefined)
    /\ pc # "done" => (result = Undefined /\ error = Undefined)
    /\ (pc = "done" /\ (~Sent \/ Failed(response))) => (error # Undefined /\ result = Undefined)

C9_Witness ==
    /\ op = "search_documents" /\ pc = "done"
    /\ response = Http(200, ListBody(Num(7), Str(<<"none">>)))
    /\ error # Undefined /\ result = Undefined

\* C10: an invocation makes at most one outbound call; a failed call is final: the
\* invocation ends with its error and no further call is made.
C10_AtMostOneCall ==
    /\ calls \in {0, 1}
    /\ Sent <=> calls = 1
    /\ (response # Undefined /\ Failed(response)) =>
          (pc = "done" /\ error # Undefined /\ calls = 1)

C10_Witness ==
    /\ op = "get_page_details" /\ pc = "done"
    /\ response = NoResponse
    /\ ErrorKind(error) = "ProviderUnavailable"
    /\ calls = 1

\* C11: with the base URL unset or empty every operation fails without an outbound
\* call, with a configuration error once its arguments are accepted; with the base
\* URL set, accepted arguments reach the outbound call whether or not an API key is
\* configured.
C11_BaseUrlRequired ==
    /\ (pc # "idle" /\ Falsy(env.WAGTAIL_BASE_URL)) =>
          /\ pc = "done"
          /\ ~Sent /\ calls = 0
          /\ result = Undefined /\ error # Undefined
          /\ ~ViolatesConstraint(op, rawArgs) => ErrorKind(error) = "ConfigurationError"
    /\ (pc # "idle" /\ ~Falsy(env.WAGTAIL_BASE_URL) /\ ~ViolatesConstraint(op, rawArgs)) =>
          /\ Sent /\ calls = 1
          /\ error # Undefined => ErrorKind(error) # "ConfigurationError"

C11_Witness ==
    /\ op = "search_pages" /\ pc = "done"
    /\ env.WAGTAIL_BASE_URL = Str(<<>>)
    /\ env.WAGTAIL_API_KEY = Str(<<"k">>)
    /\ ErrorKind(error) = "ConfigurationError"
    /\ calls = 0

\* C12: every outbound request carries Accept: application/json, and carries
\* Authorization exactly when the configured API key is non-empty, with the value
\* "Bearer " followed by the key.
C12_RequestHeaders ==
    Sent =>
        /\ request.headers.Accept = <<"application/json">>
        /\ IF env.WAGTAIL_API_KEY \in {Undefined, Str(<<>>)}
           THEN request.headers.Authorization = Undefined
           ELSE request.headers.Authorization = Str(<<"Bearer ">> \o env.WAGTAIL_API_KEY.v)

C12_Witness ==
    /\ op = "get_document_details" /\ pc = "awaiting"
    /\ env.WAGTAIL_API_KEY = Str(<<"k">>)
    /\ request.headers.Accept = <<"application/json">>
    /\ request.headers.Authorization = Str(<<"Bearer ", "k">>)

\* an invocation of tool name with arguments raw run on its own, up to its await
AloneStart(name, raw, e) ==
    LET parsed == CASE name = "get_page_details" -> PageDetailsParse(raw)
                    [] name = "search_documents" -> DocSearchParse(raw)
                    [] name = "get_document_details" -> DocDetailsParse(raw)
                    [] name = "search_pages" -> PageSearchParse(raw)
        prepared == CASE name = "get_page_details" -> PageDetailsPrepare(e, parsed.data)
                      [] name = "search_documents" -> DocSearchPrepare(e, parsed.data)
                      [] name = "get_document_details" -> DocDetailsPrepare(e, parsed.data)
                      [] name = "search_pages" -> PageSearchPrepare(e, parsed.data)
    IN  IF ~parsed.ok THEN [sent |-> FALSE, request |-> Undefined, error |-> InvalidParams]
        ELSE IF prepared.t = "throw"
        THEN [sent |-> FALSE, request |-> Undefined, error |-> prepared.error]
        ELSE [sent |-> TRUE, request |-> prepared.req, eff |-> prepared.eff]

\* the outcome of that invocation once its call came back with resp
AloneOutcome(name, eff, resp) ==
    CASE name = "get_page_details" -> PageDetailsFinish(eff, resp)
      [] name = "search_documents" -> DocSearchFinish(eff, resp)
      [] name = "get_document_details" -> DocDetailsFinish(eff, resp)
      [] name = "search_pages" -> PageSearchFinish(eff, resp)

\* C13: invocations in flight side by side are independent: whatever the interleaving,
\* the request each one sends and the outcome each one returns are those of the same
\* invocation run alone with the same arguments, configuration and provider response.
C13_Independent ==
    \A i \in Slots :
        inv[i].pc # "idle" =>
            LET v == inv[i]
                alone == AloneStart(v.op, v.rawArgs, env)
            IN  /\ v.request = alone.request
                /\ v.pc = "awaiting" => alone.sent /\ v.result = Undefined /\ v.error = Undefined
                /\ v.pc = "done" =>
                      IF alone.sent
                      THEN /\ v.result = AloneOutcome(v.op, alone.eff, v.response).result
                           /\ v.error = AloneOutcome(v.op, alone.eff, v.response).error
                      ELSE v.result = Undefined /\ v.error = alone.error

C13_Witness ==
    /\ inv[1].op = "get_document_details" /\ inv[1].pc = "done"
    /\ inv[1].rawArgs.id = Num(999)
    /\ inv[1].response = Http(404, Null)
    /\ inv[1].error.ident = Num(999)
    /\ inv[2].op = "get_document_details" /\ inv[2].pc = "awaiting"
    /\ inv[2].rawArgs.id = Num(7)

\* C14: the outbound request of every operation is bounded by a fixed per-call
\* timeout: a call that is pending has a timeout set, so that a provider that never
\* responds ends the invocation with ProviderUnavailable.
C14_TimeoutBoundsCall ==
    pc = "awaiting" => (request.timeout.t = "number" /\ request.timeout.v > 0)

\* C15: a cancellation signal the framework offers is passed to the outbound call, and
\* an invocation whose signal is already aborted makes no outbound call.
C15_SignalHonoured ==
    /\ (Sent /\ signal # Undefined) => request.signal = signal
    /\ (pc # "idle" /\ signal = AbortSignal(TRUE)) => (~Sent /\ calls = 0)

\* C16 as claimed: page-detail called without a fields string sends fields = "*", for
\* the lookup by id and for the lookup by slug or url.
C16_FieldsDefaultStar ==
    (op = "get_page_details" /\ Sent /\ IsNullish(rawArgs.fields)) =>
        Lookup(SentQuery(request), "fields") = Str(<<"*">>)

\* C16 amended: page-detail called without a fields string (absent or null) sends no
\* fields parameter at all, for the lookup by id (pages/{id}/) and for the lookup by
\* slug or url (pages/find/) alike; the provider's default field set applies.
C16_NoFieldsWhenAbsent ==
    (op = "get_page_details" /\ Sent /\ IsNullish(rawArgs.fields)) =>
        /\ ~HasKey(SentQuery(request), "fields")
        /\ IdSupplied(rawArgs) => SentQuery(request) = <<>>
        /\ ~IdSupplied(rawArgs) =>
              (Len(SentQuery(request)) = 1 /\ HasKey(SentQuery(request), "html_path"))

C16_Witness ==
    /\ op = "get_page_details" /\ pc = "awaiting"
    /\ ~IdSupplied(rawArgs) /\ rawArgs.slug = Str(<<"x">>)
    /\ rawArgs.fields = Null
    /\ HasSuffix(UrlPath(request.url), FindPath)
    /\ SentQuery(request) = <<[k |-> <<"html_path">>, v |-> Str(<<"x">>)]>>

\* C17: for page search the count of the returned envelope is the number of items in
\* the envelope's items, whatever total the provider reports (stated for the responses
\* that report a numeric total).
C17_PageSearchCount ==
    (/\ op = "search_pages" /\ pc = "done" /\ result # Undefined
     /\ response.data.meta.total_count.t = "number") =>
        result.count = Num(Len(result.items))

\* C18 as claimed: for page search and document search a provider response with
\* status 404 surfaces as ResourceNotFound, not as the ClientError of the other 4xx.
C18_SearchNotFound ==
    (/\ op \in {"search_pages", "search_documents"} /\ pc = "done"
     /\ response = Http(404, Null)) =>
        ErrorKind(error) = "ResourceNotFound"

\* C18 amended: for page search and document search a provider response with status
\* 404 surfaces as ClientError, the kind used for every 4xx status, and the error
\* carries the status.
C18_SearchNotFoundIsClientError ==
    (/\ op \in {"search_pages", "search_documents"} /\ pc = "done"
     /\ response.t = "http" /\ response.status \in 400..499) =>
        /\ result = Undefined /\ error # Undefined
        /\ ErrorKind(error) = "ClientError"
        /\ error.status = Num(response.status)

C18_Witness ==
    /\ op = "search_documents" /\ pc = "done"
    /\ response = Http(404, Null)
    /\ ErrorKind(error) = "ClientError"
    /\ error.status = Num(404)

\* s without its leading slashes, however many
RECURSIVE TrimLeadingSlashes(_)
TrimLeadingSlashes(s) ==
    IF Len(s) > 0 /\ s[1] = "/" THEN TrimLeadingSlashes(Tail(s)) ELSE s

\* s without its trailing slashes, however many
RECURSIVE TrimTrailingSlashes(_)
TrimTrailingSlashes(s) ==
    IF Len(s) > 0 /\ s[Len(s)] = "/" THEN TrimTrailingSlashes(SubSeq(s, 1, Len(s) - 1)) ELSE s

\* C19: whatever the number of leading and trailing slashes the base URL, the API path
\* and the fragment are written with, the URL built has exactly one slash between the
\* base URL and the API path and exactly one between the API path and the fragment.
C19_OneSlashBetweenSegments ==
    (/\ built # Undefined
     /\ built.queryParams = <<>>
     /\ built.specificPath # <<>>
     /\ ~Falsy(env.WAGTAIL_BASE_URL)) =>
        /\ built.out.t = "url"
        /\ built.out.v =
              TrimTrailingSlashes(env.WAGTAIL_BASE_URL.v)
              \o <<"/">> \o TrimLeadingSlashes(TrimTrailingSlashes(ApiPathOf(env)))
              \o <<"/">> \o TrimLeadingSlashes(built.specificPath)

OnWire(x) == IF x.t = "number" THEN Str(<<ToString(x.v)>>) ELSE x

\* the query holds key exactly when supplied says so, and then with that value
KeyIff(q, key, supplied, value) ==
    IF supplied THEN HasKey(q, key) /\ Lookup(q, key) = OnWire(value) ELSE ~HasKey(q, key)

PageSearchKeys ==
    {<<"limit">>, <<"locale">>, <<"search">>, <<"type">>, <<"offset">>, <<"search_operator">>}

\* what C21 says of every key but search
PageSearchOtherKeys(q) ==
    /\ Lookup(q, "limit") = (IF rawArgs.limit = Undefined THEN Str(<<"50">>) ELSE OnWire(rawArgs.limit))
    /\ Lookup(q, "locale") = (IF rawArgs.locale = Undefined THEN Str(<<"en">>) ELSE rawArgs.locale)
    /\ KeyIff(q, "type", rawArgs.type # Undefined, rawArgs.type)
    /\ KeyIff(q, "offset", rawArgs.offset # Undefined, rawArgs.offset)
    /\ KeyIff(q, "search_operator", rawArgs.search_operator # Undefined, rawArgs.search_operator)
    /\ \A i \in 1..Len(q) : q[i].k \in PageSearchKeys
    /\ \A i, j \in 1..Len(q) : q[i].k = q[j].k => i = j

PageFromMeta(out, item) ==
    /\ out.type = item.meta.type
    /\ out.slug = item.meta.slug
    /\ out.url = item.meta.html_url
    /\ out.detail_api_url = item.meta.detail_url
    /\ out.locale = item.meta.locale
    /\ out.id = item.id
    /\ out.title = item.title

\* a finished page search that returned an envelope
PageSearchReturned ==
    op = "search_pages" /\ pc = "done" /\ result # Undefined

\* C22 as claimed: each emitted page carries type, slug, url, detail_api_url and locale
\* from the provider item's meta, and every other top-level field of the provider item
\* (id, title, any additional field) unchanged: no top-level field is dropped.
C22_PageItemsKeepFields ==
    PageSearchReturned =>
        /\ Len(result.items) = Len(response.data.items.v)
        /\ \A i \in 1..Len(result.items) :
              LET out == result.items[i]
                  item == response.data.items.v[i]
              IN  /\ PageFromMeta(out, item)
                  /\ item.intro # Undefined =>
                        ("intro" \in DOMAIN out /\ out["intro"] = item.intro)

\* C22 amended: each emitted page is exactly the record {id, type, locale, title, slug,
\* url, detail_api_url}, with id and title taken unchanged from the provider item and
\* the other five from its meta; any further top-level field of the provider item, and
\* meta itself, is dropped.  The pages are emitted one per provider item, in order.
C22_PageItemsProjected ==
    PageSearchReturned =>
        /\ Len(result.items) = Len(response.data.items.v)
        /\ \A i \in 1..Len(result.items) :
              LET out == result.items[i]
                  item == response.data.items.v[i]
              IN  /\ PageFromMeta(out, item)
                  /\ DOMAIN out = {"t", "id", "type", "locale", "title", "slug", "url",
                                    "detail_api_url"}

C22_Witness ==
    /\ PageSearchReturned
    /\ Len(response.data.items.v) = 2
    /\ response.data.items.v[2].intro = Str(<<"Latest">>)
    /\ result.items[2].title = Str(<<"News">>)
    /\ result.items[2].type = Str(<<"blog.BlogPage">>)
    /\ "intro" \notin DOMAIN result.items[2]

\* a 200 body that is no page list: meta.total_count is not a number or items is no sequence
BadPageBody(d) ==
    \/ d.t # "object"
    \/ d.meta.t # "object"
    \/ d.meta.total_count.t # "number"
    \/ d.items.t # "array"

\* C23: for page search a 200 response whose meta.total_count is not a number, or whose
\* items is not a sequence, ends the invocation with a provider-response error and
\* without an envelope.
C23_PageSearchBadBody ==
    (/\ op = "search_pages" /\ pc = "done"
     /\ response.t = "http" /\ response.status = 200
     /\ BadPageBody(response.data)) =>
        /\ result = Undefined
        /\ error # Undefined /\ ErrorKind(error) = "ProviderResponseError"

\* C24: for document detail a 200 response that lacks a numeric id, a string title or a
\* string meta.download_url ends the invocation with an error and no record; with all
\* three present the result is exactly the flat record {id, title, download_url}.
C24_DocDetailRecord ==
    (/\ op = "get_document_details" /\ pc = "done"
     /\ response.t = "http" /\ response.status = 200) =>
        IF GoodDoc(response.data)
        THEN /\ error = Undefined
             /\ result = [t |-> "object",
                           id |-> response.data.id,
                           title |-> response.data.title,
                           download_url |-> response.data.meta.download_url]
        ELSE /\ result = Undefined
             /\ error # Undefined /\ ErrorKind(error) = "ProviderResponseError"

C24_Witness ==
    /\ op = "get_document_details" /\ pc = "done"
    /\ response = Http(200, DocItem(Num(1), Str(<<"A">>), DocMeta(Str(<<"u1">>))))
    /\ result = [t |-> "object", id |-> Num(1), title |-> Str(<<"A">>),
                 download_url |-> Str(<<"u1">>)]

\* the path component of an absolute http URL: what follows the host, "/" when nothing does
PathOfUrl(u) == IF Len(u) <= 4 THEN <<"/">> ELSE SubSeq(u, 5, Len(u))

\* a string that can be parsed as an absolute URL
Parseable(u) == Len(u) >= 4 /\ SubSeq(u, 1, 3) = <<"http:", "/", "/">> /\ u[4] # "/"

\* C25: page-detail resolved by url requests pages/find/ with html_path the path of
\* the url without its leading and trailing slashes, however many there are; a url
\* that cannot be parsed ends the invocation with a validation error and no call.
C25_HtmlPathOfUrl ==
    (/\ op = "get_page_details" /\ pc # "idle"
     /\ ~IdSupplied(rawArgs) /\ ~SlugSupplied(rawArgs) /\ UrlSupplied(rawArgs)) =>
        IF rawArgs.url.t = "string" /\ Parseable(rawArgs.url.v)
        THEN Sent =>
               /\ HasSuffix(UrlPath(request.url), FindPath)
               /\ Lookup(SentQuery(request), "html_path") =
                     Str(TrimLeadingSlashes(TrimTrailingSlashes(PathOfUrl(rawArgs.url.v))))
        ELSE /\ pc = "done" /\ ~Sent /\ calls = 0
             /\ error # Undefined /\ ErrorKind(error) = "ValidationError"

\* C26: page-detail validates the url on its own: a url string that is not an absolute
\* URL ends the invocation with a validation error and no call, also when an id or a
\* slug that would have selected the endpoint is supplied with it.
C26_UrlValidatedAlways ==
    (/\ op = "get_page_details" /\ pc # "idle"
     /\ rawArgs.url.t = "string" /\ ~Parseable(rawArgs.url.v)) =>
        /\ pc = "done" /\ ~Sent /\ calls = 0
        /\ result = Undefined
        /\ error # Undefined /\ ErrorKind(error) = "ValidationError"

C26_Witness ==
    /\ op = "get_page_details" /\ pc = "done"
    /\ rawArgs.id = Num(5) /\ rawArgs.slug = Str(<<"x">>)
    /\ rawArgs.url = Str(<<"h", "/", "a">>)
    /\ ~Sent /\ calls = 0
    /\ error # Undefined /\ ErrorKind(error) = "ValidationError"

\* C27: the identifier a page-detail 404 names is the one that selected the endpoint:
\* the id when it is not 0, else the slug, else the url; an id of 0 is never named.
C27_NotFoundNamesSelector ==
    (/\ op = "get_page_details" /\ pc = "done" /\ Sent
     /\ response.t = "http" /\ response.status = 404) =>
        /\ error # Undefined
        /\ error.ident # Num(0)
        /\ IF ~HasSuffix(UrlPath(request.url), FindPath)
           THEN IdSupplied(rawArgs) /\ error.ident = rawArgs.id
           ELSE IF SlugSupplied(rawArgs)
           THEN /\ error.ident = rawArgs.slug
                /\ Lookup(SentQuery(request), "html_path") = rawArgs.slug
           ELSE error.ident = rawArgs.url

C27_Witness ==
    /\ op = "get_page_details" /\ pc = "done" /\ Sent
    /\ response.t = "http" /\ response.status = 404
    /\ rawArgs.id = Num(0) /\ rawArgs.slug = Str(<<"x">>)
    /\ rawArgs.url = Str(<<"http:", "/", "/", "h">>)
    /\ HasSuffix(UrlPath(request.url), FindPath)
    /\ error.ident = Str(<<"x">>)

\* the flat records of the good items of a provider list, in the provider's order
RECURSIVE GoodDocsInOrder(_)
GoodDocsInOrder(items) ==
    IF items = <<>> THEN <<>>
    ELSE (IF GoodDoc(Head(items))
          THEN <<[t |-> "object", id |-> Head(items).id, title |-> Head(items).title,
                  download_url |-> Head(items).meta.download_url]>>
          ELSE <<>>)
         \o GoodDocsInOrder(Tail(items))

\* C28: the items document search emits are a subsequence of the provider's items:
\* every good provider item is emitted exactly once, as its flat record, and the
\* provider's relative order is kept.
C28_DocItemsSubsequence ==
    (op = "search_documents" /\ pc = "done" /\ ValidList(response)) =>
        /\ result # Undefined
        /\ result.items = GoodDocsInOrder(response.data.items.v)

C28_Witness ==
    /\ op = "search_documents" /\ pc = "done" /\ ValidList(response)
    /\ response.data.items.v =
          << DocItem(Num(2), Str(<<"B">>), DocMeta(Str(<<"u2">>))),
             DocItem(Num(1), Str(<<"A">>), DocMeta(Str(<<"u1">>))) >>
    /\ result # Undefined
    /\ Len(result.items) = 2
    /\ result.items[1].id = Num(2) /\ result.items[2].id = Num(1)

\* the values of MCP_ENABLE_STDIO that read 'false' whatever their case
StdioDisabled(e) ==
    e.MCP_ENABLE_STDIO \in { Str(<<"f", "a", "l", "s", "e">>),
                             Str(<<"F", "A", "L", "S", "E">>),
                             Str(<<"F", "a", "l", "s", "e">>) }

ExitedWith(code) == proc.pc = "exited" /\ proc.exit = [t |-> "exit", code |-> code]

\* C29: the process never keeps running without a connected transport: with stdio
\* disabled (MCP_ENABLE_STDIO is 'false' in any case) or a failed connect it exits with
\* code 1 and installs no SIGINT/SIGTERM handler; the handlers are installed only after
\* the transport has connected.
C29_NoRunWithoutTransport ==
    /\ proc.handlers # {} => (proc.connect = "resolved" /\ proc.transportConnected)
    /\ proc.pc = "running" => proc.transportConnected
    /\ ((StdioDisabled(proc.env) /\ proc.pc # "start") \/ proc.connect = "rejected") =>
          (ExitedWith(1) /\ proc.handlers = {})
    /\ (~StdioDisabled(proc.env) /\ proc.pc # "start" /\ proc.exit = Undefined) =>
          proc.pc \in {"connecting", "running"}

C29_Witness ==
    /\ proc.env.MCP_ENABLE_STDIO = Str(<<"F", "A", "L", "S", "E">>)
    /\ proc.connect = "none"
    /\ ExitedWith(1)
    /\ proc.handlers = {}

\* what holds of a connected process at every moment: each signal received has had
\* its server.close() called, and the process exits only after a close has settled,
\* with 0 when that close succeeded and 1 when it failed
ShutdownOutcome ==
    proc.transportConnected =>
        /\ proc.handlers = SignalNames
        /\ proc.closing = proc.received
        /\ proc.pc = "exited" =>
              /\ proc.settled # Undefined
              /\ proc.settled.call \in 1..Len(proc.closing)
              /\ proc.settled.closed => ExitedWith(0)
              /\ ~proc.settled.closed => ExitedWith(1)
        /\ proc.pc # "exited" => (proc.settled = Undefined /\ proc.exit = Undefined)

\* C30: once connected, every SIGINT or SIGTERM has server.close() called and leads to
\* the exit of the process, with code 0 when close succeeds and code 1 when it fails,
\* never code 0 after a failed close, also when a second signal arrives during the
\* first close.
C30_SignalLeadsToExit ==
    /\ []ShutdownOutcome
    /\ (proc.transportConnected /\ proc.received # <<>>) ~> (proc.pc = "exited")

C30_Witness ==
    /\ proc.transportConnected
    /\ proc.closing = <<"SIGINT", "SIGTERM">>
    /\ proc.settled # Undefined
    /\ proc.settled.call = 1 /\ ~proc.settled.closed
    /\ ExitedWith(1)

====
